---- MODULE Spec2Model ----
(***************************************************************************)
(* Digital signage CMS (src/app.py, src/config.py): the content registry,  *)
(* the screen registry, the upload folder and the request handlers that    *)
(* read and write them.  Each handler is one action (requests run one at a *)
(* time in Spec); the store operations and the pure helpers are operators. *)
(*                                                                         *)
(* Values.  A Python str that matters character by character (a file name) *)
(* is a sequence of one-character strings.  An ObjectId is [oid |-> n]; the *)
(* text of a content id (form field, URL part, JSON field) is a record     *)
(* that keeps the shape of the text and, for 24 hex digits, the value they *)
(* spell.  Python's None and JSON's null are None.                          *)
(***************************************************************************)
EXTENDS Integers, Sequences, FiniteSets, TLC

VARIABLES
    content_collection,   \* db.content: the documents, in natural order
    screens_collection,   \* db.screens: the documents, in natural order
    upload_folder,        \* the file names present in UPLOAD_FOLDER
    issued,               \* how many ObjectIds insert_one has generated
    request,              \* the request handled last
    flashed,              \* the message that request flashed, or None
    response,             \* what that request returned
    threads               \* the requests in flight, one per worker thread

vars == <<content_collection, screens_collection, upload_folder, issued,
          request, flashed, response, threads>>

store == <<content_collection, screens_collection, upload_folder, issued>>

\* What the request handled last left behind.
last == <<request, flashed, response>>

\* ------------------------------------------------------------------ bounds

\* Uploads accepted in one behaviour (each one generates an ObjectId).
MaxUploads == 2

\* Uploads accepted in one behaviour of the interleaved specification.
MaxInterleavedUploads == 1

\* ------------------------------------------------------------------ values

None == [none |-> TRUE]

ObjectIdOf(n) == [oid |-> n]

\* The text of a content id.
HexString(n) == [chars |-> "hex24", val |-> n]
EmptyString == [chars |-> "", val |-> 0]
MalformedString == [chars |-> "other", val |-> 0]

\* str(ObjectId): the 24 hex digits of the id.
str(o) == HexString(o.oid)

\* A validity test that lets every text but the empty one through.
IsValidObjectId_any_text(s) == s.chars # ""

\* bson ObjectId.is_valid: only 24 hex digits parse.
IsValidObjectId(s) == s.chars = "hex24"

\* ObjectId(s) for a text that parses.
ObjectId(s) == ObjectIdOf(s.val)

ScreenIds == {"s1", "s2"}

\* The worker threads of the request server.
Threads == {"t1", "t2"}

\* A thread between two requests.
Idle == [pc |-> "idle"]

\* The readings datetime.now() can give an upload: an earlier and a later
\* one, in any order and with repeats (the wall clock is not monotonic and
\* the store keeps milliseconds).
Times == {1, 2}

\* ------------------------------------------------------- sequence helpers

Range(q) == {q[i] : i \in DOMAIN q}

RemoveAt(q, i) == SubSeq(q, 1, i - 1) \o SubSeq(q, i + 1, Len(q))

\* The place of the first document of coll whose _id is id; 0 when there
\* is none.
FirstIndex(coll, id) ==
    IF \E i \in DOMAIN coll : coll[i]._id = id
    THEN CHOOSE i \in DOMAIN coll :
            coll[i]._id = id /\ \A j \in 1..(i - 1) : coll[j]._id # id
    ELSE 0

\* ------------------------------------------------------------ file names

UpperCase == <<"A", "B", "C", "D", "E", "F", "G", "H", "I", "J", "K", "L", "M",
               "N", "O", "P", "Q", "R", "S", "T", "U", "V", "W", "X", "Y", "Z">>

LowerCase == <<"a", "b", "c", "d", "e", "f", "g", "h", "i", "j", "k", "l", "m",
               "n", "o", "p", "q", "r", "s", "t", "u", "v", "w", "x", "y", "z">>

Digits == {"0", "1", "2", "3", "4", "5", "6", "7", "8", "9"}

\* str.lower(), one character.
LowerChar(c) ==
    IF c \in Range(UpperCase)
    THEN LowerCase[CHOOSE i \in DOMAIN UpperCase : UpperCase[i] = c]
    ELSE c

lower(f) == [i \in DOMAIN f |-> LowerChar(f[i])]

\* Config.ALLOWED_EXTENSIONS
ALLOWED_EXTENSIONS ==
    { <<"p", "n", "g">>, <<"j", "p", "g">>, <<"m", "o", "v">>,
      <<"j", "p", "e", "g">>, <<"g", "i", "f">>, <<"m", "p", "4">>,
      <<"w", "e", "b", "m">>, <<"o", "g", "g">> }

\* filename.rsplit('.', 1)[1]: what follows the last dot (f has a dot).
AfterLastDot(f) ==
    LET d == CHOOSE i \in DOMAIN f : f[i] = "." /\ \A j \in (i + 1)..Len(f) : f[j] # "."
    IN  SubSeq(f, d + 1, Len(f))

\* The test without .lower(): the extension is compared as typed.
allowed_file_case_sensitive(filename) ==
    /\ "." \in Range(filename)
    /\ AfterLastDot(filename) \in ALLOWED_EXTENSIONS

allowed_file(filename) ==
    /\ "." \in Range(filename)
    /\ lower(AfterLastDot(filename)) \in ALLOWED_EXTENSIONS

\* werkzeug secure_filename, on ASCII text: path separators become blanks,
\* the blank-separated words are joined by "_", every character outside
\* [A-Za-z0-9_.-] is dropped, and dots and underscores are stripped from
\* both ends.
ReplaceSep(f) == [i \in DOMAIN f |-> IF f[i] = "/" THEN " " ELSE f[i]]

RECURSIVE JoinWords(_, _, _, _)
JoinWords(f, i, pending, out) ==
    IF i > Len(f) THEN out
    ELSE IF f[i] = " " THEN JoinWords(f, i + 1, out # <<>>, out)
    ELSE JoinWords(f, i + 1, FALSE,
                   out \o (IF pending THEN <<"_">> ELSE <<>>) \o <<f[i]>>)

KeptChars == Range(UpperCase) \cup Range(LowerCase) \cup Digits \cup {"_", ".", "-"}

KeepAscii(f) == SelectSeq(f, LAMBDA c : c \in KeptChars)

RECURSIVE StripLeft(_)
StripLeft(f) ==
    IF f # <<>> /\ Head(f) \in {".", "_"} THEN StripLeft(Tail(f)) ELSE f

RECURSIVE StripRight(_)
StripRight(f) ==
    IF f # <<>> /\ f[Len(f)] \in {".", "_"}
    THEN StripRight(SubSeq(f, 1, Len(f) - 1))
    ELSE f

secure_filename(f) ==
    StripRight(StripLeft(KeepAscii(JoinWords(ReplaceSep(f), 1, FALSE, <<>>))))

\* The files a client posts: request.files['file'] with its name and its
\* declared mimetype, or None when the form has no file part.
PostedFiles ==
    { [filename |-> <<"a", ".", "p", "n", "g">>, mimetype |-> "image/png"],
      [filename |-> <<".", ".", "/", "b", ".", "M", "P", "4">>,
       mimetype |-> "video/mp4"],
      [filename |-> <<"a", ".", "e", "x", "e">>,
       mimetype |-> "application/octet-stream"],
      [filename |-> <<"p", "n", "g">>, mimetype |-> "image/png"],
      [filename |-> <<>>, mimetype |-> "application/octet-stream"] }

\* ---------------------------------------------------- store operations

\* A lookup that lost its filter: the first document of the collection.
find_one_unfiltered(coll, id) == IF coll = <<>> THEN None ELSE coll[1]

\* collection.find_one({'_id': id}): the first document with that _id.
find_one(coll, id) ==
    LET i == FirstIndex(coll, id)
    IN  IF i = 0 THEN None ELSE coll[i]

\* A count whose filter holds the text of the id, which no stored ObjectId
\* equals.
count_documents_by_text(coll, oid) ==
    Cardinality({i \in DOMAIN coll : coll[i].assigned_content_id = str(oid)})

\* screens_collection.count_documents({'assigned_content_id': oid})
count_documents(coll, oid) ==
    Cardinality({i \in DOMAIN coll : coll[i].assigned_content_id = oid})

\* collection.insert_one(doc): the document is appended.
insert_one(coll, doc) == Append(coll, doc)

\* A delete that lost its filter: the first document of the collection goes.
delete_one_unfiltered(coll, id) == IF coll = <<>> THEN coll ELSE Tail(coll)

\* collection.delete_one({'_id': id}): the first match goes, if there is one.
delete_one(coll, id) ==
    LET i == FirstIndex(coll, id)
    IN  IF i = 0 THEN coll ELSE RemoveAt(coll, i)

\* An update without upsert: with no match nothing is written.
update_one_no_upsert(coll, id, v) ==
    LET i == FirstIndex(coll, id)
    IN  IF i = 0 THEN coll ELSE [coll EXCEPT ![i].assigned_content_id = v]

\* collection.update_one({'_id': id}, {'$set': {'assigned_content_id': v}},
\* upsert=True): the first match gets the field; with no match a document
\* made of the filter and the $set is inserted.
update_one_upsert(coll, id, v) ==
    LET i == FirstIndex(coll, id)
    IN  IF i = 0
        THEN Append(coll, [_id |-> id, assigned_content_id |-> v])
        ELSE [coll EXCEPT ![i].assigned_content_id = v]

\* ------------------------------------------------------------- read side

\* The aggregate() pipeline of index and manage_screens, for one screen
\* document: $lookup collects the content documents whose _id equals
\* assigned_content_id, $unwind (preserveNullAndEmptyArrays) yields one row
\* per match, or one row with no assigned_content when nothing matches, and
\* $project keeps id, assigned_content_id and, when it exists, the matched
\* document's filename; keep_id tells whether _id stays in the row.  The
\* two handlers spell the same pipeline, but for '_id': 0 in index.

\* A join that matches every content document for an assigned screen.
lookup_unkeyed(screen) ==
    IF screen.assigned_content_id = None THEN <<>> ELSE content_collection

\* $lookup: localField assigned_content_id, foreignField _id.
lookup(screen) ==
    SelectSeq(content_collection, LAMBDA d : d._id = screen.assigned_content_id)

project(screen, matched, keep_id) ==
    (IF keep_id THEN [_id |-> screen._id] ELSE <<>>)
    @@ [id |-> screen._id, assigned_content_id |-> screen.assigned_content_id]
    @@ (IF matched = None THEN <<>> ELSE [filename |-> matched.filename])

unwind_project(screen, keep_id) ==
    LET found == lookup(screen)
    IN  IF found = <<>>
        THEN <<project(screen, None, keep_id)>>
        ELSE [i \in DOMAIN found |-> project(screen, found[i], keep_id)]

RECURSIVE aggregate(_, _)
aggregate(screens, keep_id) ==
    IF screens = <<>> THEN <<>>
    ELSE unwind_project(Head(screens), keep_id) \o aggregate(Tail(screens), keep_id)

\* The sort with its direction flipped: sort("upload_date", 1).
sort_upload_date_asc(docs) ==
    LET n == Len(docs)
        perms == {p \in [1..n -> 1..n] : \A i, j \in 1..n : i # j => p[i] # p[j]}
    IN  { [i \in 1..n |-> docs[p[i]]] : p \in
            {q \in perms : \A i, j \in 1..n :
                i < j => docs[q[i]].upload_date <= docs[q[j]].upload_date} }

\* find().sort("upload_date", -1): every document once, no document before
\* one with a later upload_date.  The store promises no order among
\* documents with equal sort keys, so any such sequence can come back.
sort_upload_date_desc(docs) ==
    LET n == Len(docs)
        perms == {p \in [1..n -> 1..n] : \A i, j \in 1..n : i # j => p[i] # p[j]}
    IN  { [i \in 1..n |-> docs[p[i]]] : p \in
            {q \in perms : \A i, j \in 1..n :
                i < j => docs[q[i]].upload_date >= docs[q[j]].upload_date} }

\* item['id'] = str(item['_id'])
with_id(listing) == [i \in DOMAIN listing |-> listing[i] @@ [id |-> str(listing[i]._id)]]

\* url_for('static', filename=f'uploads/{filename}', _external=True)
static_url(filename) == [endpoint |-> "static", dir |-> "uploads/", file |-> filename]

\* The JSON get_screen_content builds from the store as it stands, the
\* auto-registration write apart.
screen_json(screen_id) ==
    LET screen_data == find_one(screens_collection, screen_id)
        base == [screen_id |-> screen_id, content |-> None]
    IN  IF screen_data # None
        THEN LET assigned_content_id == screen_data.assigned_content_id
             IN  IF assigned_content_id # None
                 THEN LET assigned_content ==
                              find_one(content_collection, assigned_content_id)
                      IN  IF assigned_content # None
                          THEN [base EXCEPT !.content =
                                   [content_id |-> str(assigned_content._id),
                                    filename |-> assigned_content.filename,
                                    url |-> static_url(assigned_content.filename),
                                    mimetype |-> assigned_content.mimetype]]
                          ELSE base @@ [message |->
                                   "Assigned content not found. Content may have been deleted."]
                 ELSE base @@ [message |-> "No content assigned yet."]
        ELSE base @@ [message |-> "Screen registered. No content assigned yet."]

\* ---------------------------------------------------------------- state

Init ==
    /\ content_collection = <<>>
    /\ screens_collection = <<>>
    /\ upload_folder = {}
    /\ issued = 0
    /\ request = [route |-> "start"]
    /\ flashed = None
    /\ response = None
    /\ threads = [t \in Threads |-> Idle]

Flash(text) == [text |-> text]

Redirect(endpoint) == [redirect |-> endpoint]

\* The content id texts a client can send: the ids generated so far (of
\* existing and of deleted items), a well-formed id the registry never
\* generated (0), and a text that is no ObjectId.
ContentIdTexts == {HexString(n) : n \in 0..issued} \cup {MalformedString}

\* ------------------------------------------------------------- handlers

\* GET /
index ==
    /\ \E listing \in sort_upload_date_desc(content_collection) :
          response' = [template |-> "index.html",
                       content |-> with_id(listing),
                       screens |-> aggregate(screens_collection, FALSE)]
    /\ UNCHANGED threads
    /\ request' = [route |-> "/"]
    /\ flashed' = None
    /\ UNCHANGED store

\* GET /upload
upload_form ==
    /\ UNCHANGED threads
    /\ request' = [route |-> "/upload", method |-> "GET"]
    /\ response' = [template |-> "upload.html"]
    /\ flashed' = None
    /\ UNCHANGED store

\* POST /upload; file is request.files.get('file'), None when the form has
\* no file part; upload_date is what datetime.now() returns.
upload_file(file) ==
    /\ UNCHANGED threads
    /\ request' = [route |-> "/upload", method |-> "POST", file |-> file]
    /\ IF file = None
       THEN /\ flashed' = Flash("No file part")
            /\ response' = Redirect("upload_file")
            /\ UNCHANGED store
       ELSE IF file.filename = <<>>
       THEN /\ flashed' = Flash("No selected file")
            /\ response' = Redirect("upload_file")
            /\ UNCHANGED store
       ELSE IF allowed_file(file.filename)
       THEN \E now \in Times :
            LET filename == secure_filename(file.filename)
                content_data ==
                    [_id |-> ObjectIdOf(issued + 1),
                     filename |-> filename,
                     filepath |-> [dir |-> "/static/uploads/", file |-> filename],
                     mimetype |-> file.mimetype,
                     upload_date |-> now]
            IN  /\ issued < MaxUploads
                /\ upload_folder' = upload_folder \cup {filename}
                /\ content_collection' = insert_one(content_collection, content_data)
                /\ issued' = issued + 1
                /\ flashed' = Flash("File successfully uploaded")
                /\ response' = Redirect("index")
                /\ UNCHANGED screens_collection
       ELSE /\ flashed' = Flash("Allowed file types are ...")
            /\ response' = Redirect("upload_file")
            /\ UNCHANGED store

\* POST /delete_content/<content_id>
delete_content(content_id) ==
    /\ UNCHANGED threads
    /\ request' = [route |-> "/delete_content", content_id |-> content_id]
    /\ response' = Redirect("index")
    /\ IF ~IsValidObjectId(content_id)
       THEN /\ flashed' = Flash("Invalid content ID.")
            /\ UNCHANGED store
       ELSE LET obj_id == ObjectId(content_id)
                screen_count == count_documents(screens_collection, obj_id)
                content_item == find_one(content_collection, obj_id)
            IN  IF screen_count > 0
                THEN /\ flashed' =
                          [text |-> "Cannot delete content: It is currently assigned to {screen_count} screen(s).",
                           screen_count |-> screen_count]
                     /\ UNCHANGED store
                ELSE IF content_item # None
                THEN /\ upload_folder' = upload_folder \ {content_item.filename}
                     /\ content_collection' = delete_one(content_collection, obj_id)
                     /\ flashed' = Flash("Content deleted successfully.")
                     /\ UNCHANGED <<screens_collection, issued>>
                ELSE /\ flashed' = Flash("Content not found.")
                     /\ UNCHANGED store

\* GET or POST /manage_screens
manage_screens ==
    /\ UNCHANGED threads
    /\ request' = [route |-> "/manage_screens"]
    /\ response' = [template |-> "screens.html",
                    screens |-> aggregate(screens_collection, TRUE),
                    content |-> content_collection]
    /\ flashed' = None
    /\ UNCHANGED store

\* The conversion without its guard for the empty text.
to_object_id_unguarded(content_id) == ObjectId(content_id)

\* ObjectId(content_id) if content_id else None, for a text that parses
to_object_id(content_id) ==
    IF content_id # EmptyString THEN ObjectId(content_id) ELSE None

\* POST /assign_content with the form fields screen_id and content_id
assign_content(screen_id, content_id) ==
    /\ UNCHANGED threads
    /\ request' = [route |-> "/assign_content", screen_id |-> screen_id,
                   content_id |-> content_id]
    /\ response' = Redirect("manage_screens")
    /\ IF content_id # EmptyString /\ ~IsValidObjectId(content_id)
       THEN /\ flashed' = [text |-> "Invalid content ID selected: {e}"]
            /\ UNCHANGED store
       ELSE LET obj_content_id == to_object_id(content_id)
                updated == update_one_upsert(screens_collection, screen_id,
                                             obj_content_id)
                updated_screen_data == find_one(updated, screen_id)
            IN  /\ screens_collection' = updated
                /\ UNCHANGED <<content_collection, upload_folder, issued>>
                /\ flashed' =
                     IF updated_screen_data # None
                     THEN IF /\ content_id # EmptyString
                             /\ updated_screen_data.assigned_content_id = obj_content_id
                          THEN [text |-> "Content assigned to screen {screen_id} successfully!",
                                screen_id |-> screen_id]
                          ELSE IF /\ content_id = EmptyString
                                  /\ updated_screen_data.assigned_content_id = None
                          THEN [text |-> "Content unassigned from screen {screen_id} successfully!",
                                screen_id |-> screen_id]
                          ELSE [text |-> "Content assignment to screen {screen_id} failed verification!",
                                screen_id |-> screen_id]
                     ELSE [text |-> "Screen {screen_id} not found after assignment attempt!",
                           screen_id |-> screen_id]

\* A delete that cascades to the content item the screen shows.
delete_screen_cascade(screen_id) ==
    LET doc == find_one(screens_collection, screen_id)
    IN  /\ request' = [route |-> "/delete_screen", screen_id |-> screen_id]
        /\ screens_collection' = delete_one(screens_collection, screen_id)
        /\ content_collection' =
              IF doc = None THEN content_collection
              ELSE delete_one(content_collection, doc.assigned_content_id)
        /\ flashed' = [text |-> "Screen {screen_id} deleted.", screen_id |-> screen_id]
        /\ response' = Redirect("manage_screens")
        /\ UNCHANGED <<upload_folder, issued>>
        /\ UNCHANGED threads

\* POST /delete_screen/<screen_id>
delete_screen(screen_id) ==
    /\ UNCHANGED threads
    /\ request' = [route |-> "/delete_screen", screen_id |-> screen_id]
    /\ screens_collection' = delete_one(screens_collection, screen_id)
    /\ flashed' = [text |-> "Screen {screen_id} deleted.", screen_id |-> screen_id]
    /\ response' = Redirect("manage_screens")
    /\ UNCHANGED <<content_collection, upload_folder, issued>>

\* A poll that registers nothing.
get_screen_content_no_register(screen_id) ==
    /\ UNCHANGED threads
    /\ request' = [route |-> "/api/screen", screen_id |-> screen_id]
    /\ response' = screen_json(screen_id)
    /\ flashed' = None
    /\ UNCHANGED store

\* A poll that clears an assignment it cannot resolve.
get_screen_content_clears_stale(screen_id) ==
    LET screen_data == find_one(screens_collection, screen_id)
    IN  /\ request' = [route |-> "/api/screen", screen_id |-> screen_id]
        /\ response' = screen_json(screen_id)
        /\ flashed' = None
        /\ screens_collection' =
             IF screen_data = None
             THEN insert_one(screens_collection,
                             [_id |-> screen_id, assigned_content_id |-> None])
             ELSE IF find_one(content_collection, screen_data.assigned_content_id) = None
             THEN update_one_upsert(screens_collection, screen_id, None)
             ELSE screens_collection
        /\ UNCHANGED <<content_collection, upload_folder, issued>>
        /\ UNCHANGED threads

\* GET /api/screen/<screen_id>
get_screen_content(screen_id) ==
    /\ UNCHANGED threads
    /\ request' = [route |-> "/api/screen", screen_id |-> screen_id]
    /\ response' = screen_json(screen_id)
    /\ flashed' = None
    /\ screens_collection' =
         IF find_one(screens_collection, screen_id) = None
         THEN insert_one(screens_collection,
                         [_id |-> screen_id, assigned_content_id |-> None])
         ELSE screens_collection
    /\ UNCHANGED <<content_collection, upload_folder, issued>>

\* GET /display/<screen_id_param>
display_screen(screen_id_param) ==
    /\ UNCHANGED threads
    /\ request' = [route |-> "/display", screen_id |-> screen_id_param]
    /\ response' = [template |-> "Abcd.html", screen_id |-> screen_id_param]
    /\ flashed' = None
    /\ UNCHANGED store

\* One request at a time, each run from its first line to its return.
Next ==
    \/ index
    \/ upload_form
    \/ \E file \in PostedFiles \cup {None} : upload_file(file)
    \/ \E content_id \in ContentIdTexts : delete_content(content_id)
    \/ manage_screens
    \/ \E screen_id \in ScreenIds, content_id \in ContentIdTexts \cup {EmptyString} :
          assign_content(screen_id, content_id)
    \/ \E screen_id \in ScreenIds : delete_screen(screen_id)
    \/ \E screen_id \in ScreenIds : get_screen_content(screen_id)
    \/ \E screen_id \in ScreenIds : display_screen(screen_id)

Spec == Init /\ [][Next]_vars

\* The requests again, with every assign_content naming no content or the
\* id of an item that is stored when the request runs.
AssignableTexts ==
    {EmptyString} \cup {str(content_collection[k]._id) : k \in DOMAIN content_collection}

NextAssignExisting ==
    \/ index
    \/ upload_form
    \/ \E file \in PostedFiles \cup {None} : upload_file(file)
    \/ \E content_id \in ContentIdTexts : delete_content(content_id)
    \/ manage_screens
    \/ \E screen_id \in ScreenIds, content_id \in AssignableTexts :
          assign_content(screen_id, content_id)
    \/ \E screen_id \in ScreenIds : delete_screen(screen_id)
    \/ \E screen_id \in ScreenIds : get_screen_content(screen_id)
    \/ \E screen_id \in ScreenIds : display_screen(screen_id)

SpecAssignExisting == Init /\ [][NextAssignExisting]_vars

\* ------------------------------------------------- interleaved requests
\* The same handlers with two requests in flight: a step is one store or
\* file operation of one thread, and a request starts with its first
\* operation.  A finished thread keeps what its request answered until it
\* takes the next request.  The handlers that only read and render (index,
\* manage_screens, display_screen, the upload form) are left out.

Free(t) == threads[t].pc \in {"idle", "done"}

Done(req, outcome) == req @@ [pc |-> "done", outcome |-> outcome]

\* The threads after thread t wrote the document of screen_id: an
\* assign_content of another thread that waits to verify that screen has
\* been written over.
WrittenOver(thr, t, screen_id) ==
    [u \in Threads |->
        IF u # t /\ thr[u].pc = "verify" /\ thr[u].screen_id = screen_id
        THEN [thr[u] EXCEPT !.written = TRUE]
        ELSE thr[u]]

\* The file the interleaved uploads post.
InterleavedFile == [filename |-> <<"a", ".", "p", "n", "g">>, mimetype |-> "image/png"]

\* A collection whose _id index lets a second document of one _id in.
DuplicateKey_not_enforced(coll, doc) == FALSE

\* The _id unique index: insert_one raises DuplicateKeyError when the
\* collection holds a document with the _id of doc.
DuplicateKey(coll, doc) == \E i \in DOMAIN coll : coll[i]._id = doc._id

\* upload_file: file.save(filepath_on_disk)
upload_file_save(t) ==
    /\ Free(t)
    /\ issued + Cardinality({u \in Threads : threads[u].pc = "insert_content"})
         < MaxInterleavedUploads
    /\ allowed_file(InterleavedFile.filename)
    /\ upload_folder' = upload_folder \cup {secure_filename(InterleavedFile.filename)}
    /\ threads' = [threads EXCEPT ![t] =
                      [pc |-> "insert_content", route |-> "/upload",
                       filename |-> secure_filename(InterleavedFile.filename)]]
    /\ UNCHANGED <<content_collection, screens_collection, issued>>
    /\ UNCHANGED last

\* upload_file: content_collection.insert_one(content_data)
upload_file_insert(t) ==
    /\ threads[t].pc = "insert_content"
    /\ \E now \in Times :
          content_collection' =
              insert_one(content_collection,
                         [_id |-> ObjectIdOf(issued + 1),
                          filename |-> threads[t].filename,
                          filepath |-> [dir |-> "/static/uploads/",
                                        file |-> threads[t].filename],
                          mimetype |-> InterleavedFile.mimetype,
                          upload_date |-> now])
    /\ issued' = issued + 1
    /\ threads' = [threads EXCEPT ![t] =
                      Done([route |-> "/upload"], Flash("File successfully uploaded"))]
    /\ UNCHANGED <<screens_collection, upload_folder>>
    /\ UNCHANGED last

\* delete_content: screens_collection.count_documents(...)
delete_content_count(t, content_id) ==
    LET req == [route |-> "/delete_content", content_id |-> content_id]
        screen_count == count_documents(screens_collection, ObjectId(content_id))
    IN  /\ Free(t)
        /\ IsValidObjectId(content_id)
        /\ threads' = [threads EXCEPT ![t] =
              IF screen_count > 0
              THEN Done(req, [text |-> "Cannot delete content: It is currently assigned to {screen_count} screen(s).",
                              screen_count |-> screen_count])
              ELSE req @@ [pc |-> "find_content"]]
        /\ UNCHANGED store
        /\ UNCHANGED last

\* delete_content: content_collection.find_one({'_id': obj_id})
delete_content_find(t) ==
    LET req == [route |-> "/delete_content", content_id |-> threads[t].content_id]
        content_item == find_one(content_collection, ObjectId(threads[t].content_id))
    IN  /\ threads[t].pc = "find_content"
        /\ threads' = [threads EXCEPT ![t] =
              IF content_item # None
              THEN req @@ [pc |-> "remove_file", filename |-> content_item.filename]
              ELSE Done(req, Flash("Content not found."))]
        /\ UNCHANGED store
        /\ UNCHANGED last

\* delete_content: os.path.exists(file_path_on_disk), os.remove(...)
delete_content_remove(t) ==
    /\ threads[t].pc = "remove_file"
    /\ upload_folder' = upload_folder \ {threads[t].filename}
    /\ threads' = [threads EXCEPT ![t] =
          [route |-> "/delete_content", content_id |-> threads[t].content_id,
           pc |-> "delete_content"]]
    /\ UNCHANGED <<content_collection, screens_collection, issued>>
    /\ UNCHANGED last

\* delete_content: content_collection.delete_one({'_id': obj_id})
delete_content_delete(t) ==
    /\ threads[t].pc = "delete_content"
    /\ content_collection' =
          delete_one(content_collection, ObjectId(threads[t].content_id))
    /\ threads' = [threads EXCEPT ![t] =
          Done([route |-> "/delete_content", content_id |-> threads[t].content_id],
               Flash("Content deleted successfully."))]
    /\ UNCHANGED <<screens_collection, upload_folder, issued>>
    /\ UNCHANGED last

\* assign_content: existing_screen = find_one(...), read for the log only
assign_content_find(t, screen_id, content_id) ==
    /\ Free(t)
    /\ content_id = EmptyString \/ IsValidObjectId(content_id)
    /\ threads' = [threads EXCEPT ![t] =
          [route |-> "/assign_content", screen_id |-> screen_id,
           content_id |-> content_id, pc |-> "update"]]
    /\ UNCHANGED store
    /\ UNCHANGED last

\* assign_content: screens_collection.update_one(..., upsert=True)
assign_content_update(t) ==
    /\ threads[t].pc = "update"
    /\ screens_collection' =
          update_one_upsert(screens_collection, threads[t].screen_id,
                            to_object_id(threads[t].content_id))
    /\ threads' = WrittenOver(
          [threads EXCEPT ![t] =
              [route |-> "/assign_content", screen_id |-> threads[t].screen_id,
               content_id |-> threads[t].content_id, pc |-> "verify",
               written |-> FALSE]],
          t, threads[t].screen_id)
    /\ UNCHANGED <<content_collection, upload_folder, issued>>
    /\ UNCHANGED last

\* assign_content: updated_screen_data = find_one(...) and the flash
assign_content_verify(t) ==
    LET screen_id == threads[t].screen_id
        content_id == threads[t].content_id
        obj_content_id == to_object_id(content_id)
        updated_screen_data == find_one(screens_collection, screen_id)
        text ==
            IF updated_screen_data # None
            THEN IF /\ content_id # EmptyString
                    /\ updated_screen_data.assigned_content_id = obj_content_id
                 THEN "Content assigned to screen {screen_id} successfully!"
                 ELSE IF /\ content_id = EmptyString
                         /\ updated_screen_data.assigned_content_id = None
                 THEN "Content unassigned from screen {screen_id} successfully!"
                 ELSE "Content assignment to screen {screen_id} failed verification!"
            ELSE "Screen {screen_id} not found after assignment attempt!"
    IN  /\ threads[t].pc = "verify"
        /\ threads' = [threads EXCEPT ![t] =
              Done([route |-> "/assign_content", screen_id |-> screen_id,
                    content_id |-> content_id, written |-> threads[t].written],
                   [text |-> text, screen_id |-> screen_id])]
        /\ UNCHANGED store
        /\ UNCHANGED last

\* delete_screen: screens_collection.delete_one({'_id': screen_id})
delete_screen_delete(t, screen_id) ==
    /\ Free(t)
    /\ screens_collection' = delete_one(screens_collection, screen_id)
    /\ threads' = WrittenOver(
          [threads EXCEPT ![t] =
              Done([route |-> "/delete_screen", screen_id |-> screen_id],
                   [text |-> "Screen {screen_id} deleted.", screen_id |-> screen_id])],
          t, screen_id)
    /\ UNCHANGED <<content_collection, upload_folder, issued>>
    /\ UNCHANGED last

\* get_screen_content: screen_data = screens_collection.find_one(...)
get_screen_content_find(t, screen_id) ==
    LET req == [route |-> "/api/screen", screen_id |-> screen_id]
        screen_data == find_one(screens_collection, screen_id)
    IN  /\ Free(t)
        /\ threads' = [threads EXCEPT ![t] =
              IF screen_data = None
              THEN req @@ [pc |-> "insert_screen"]
              ELSE IF screen_data.assigned_content_id = None
              THEN Done(req, [screen_id |-> screen_id, content |-> None,
                              message |-> "No content assigned yet."])
              ELSE req @@ [pc |-> "find_assigned",
                           assigned_content_id |-> screen_data.assigned_content_id]]
        /\ UNCHANGED store
        /\ UNCHANGED last

\* A poll that registers with an upsert of no content instead of an insert.
get_screen_content_insert_upsert(t) ==
    LET screen_id == threads[t].screen_id
        req == [route |-> "/api/screen", screen_id |-> screen_id]
    IN  /\ threads[t].pc = "insert_screen"
        /\ screens_collection' = update_one_upsert(screens_collection, screen_id, None)
        /\ threads' = [threads EXCEPT ![t] =
              Done(req, [screen_id |-> screen_id, content |-> None,
                         message |-> "Screen registered. No content assigned yet."])]
        /\ UNCHANGED <<content_collection, upload_folder, issued>>
        /\ UNCHANGED last

\* get_screen_content: screens_collection.insert_one(...); the exception
\* of a duplicate _id is not caught and the request ends as a server error.
get_screen_content_insert(t) ==
    LET screen_id == threads[t].screen_id
        req == [route |-> "/api/screen", screen_id |-> screen_id]
        doc == [_id |-> screen_id, assigned_content_id |-> None]
    IN  /\ threads[t].pc = "insert_screen"
        /\ IF DuplicateKey(screens_collection, doc)
           THEN /\ threads' = [threads EXCEPT ![t] =
                      Done(req, [error |-> "DuplicateKeyError"])]
                /\ UNCHANGED screens_collection
           ELSE /\ screens_collection' = insert_one(screens_collection, doc)
                /\ threads' = [threads EXCEPT ![t] =
                      Done(req, [screen_id |-> screen_id, content |-> None,
                                 message |-> "Screen registered. No content assigned yet."])]
        /\ UNCHANGED <<content_collection, upload_folder, issued>>
        /\ UNCHANGED last

\* get_screen_content: assigned_content = content_collection.find_one(...)
get_screen_content_assigned(t) ==
    LET screen_id == threads[t].screen_id
        req == [route |-> "/api/screen", screen_id |-> screen_id]
        assigned_content == find_one(content_collection, threads[t].assigned_content_id)
    IN  /\ threads[t].pc = "find_assigned"
        /\ threads' = [threads EXCEPT ![t] =
              IF assigned_content # None
              THEN Done(req, [screen_id |-> screen_id,
                              content |-> [content_id |-> str(assigned_content._id),
                                           filename |-> assigned_content.filename,
                                           url |-> static_url(assigned_content.filename),
                                           mimetype |-> assigned_content.mimetype]])
              ELSE Done(req, [screen_id |-> screen_id, content |-> None,
                              message |-> "Assigned content not found. Content may have been deleted."])]
        /\ UNCHANGED store
        /\ UNCHANGED last

\* The texts of the ids generated so far, of stored and of deleted items.
IssuedIdTexts == {HexString(n) : n \in 1..issued}

NextInterleaved ==
    \/ \E t \in Threads : upload_file_save(t)
    \/ \E t \in Threads : upload_file_insert(t)
    \/ \E t \in Threads, content_id \in IssuedIdTexts :
          delete_content_count(t, content_id)
    \/ \E t \in Threads : delete_content_find(t)
    \/ \E t \in Threads : delete_content_remove(t)
    \/ \E t \in Threads : delete_content_delete(t)
    \/ \E t \in Threads, screen_id \in ScreenIds,
          content_id \in IssuedIdTexts \cup {EmptyString} :
          assign_content_find(t, screen_id, content_id)
    \/ \E t \in Threads : assign_content_update(t)
    \/ \E t \in Threads : assign_content_verify(t)
    \/ \E t \in Threads, screen_id \in ScreenIds : delete_screen_delete(t, screen_id)
    \/ \E t \in Threads, screen_id \in ScreenIds :
          get_screen_content_find(t, screen_id)
    \/ \E t \in Threads : get_screen_content_insert(t)
    \/ \E t \in Threads : get_screen_content_assigned(t)

SpecInterleaved == Init /\ [][NextInterleaved]_vars

\* ================================================================ claims

\* What the claims speak of, read off the collections directly.
DocsWithId(coll, id) == {i \in DOMAIN coll : coll[i]._id = id}

AssignedTo(coll, oid) == {i \in DOMAIN coll : coll[i].assigned_content_id = oid}

ContentExists(oid) == DocsWithId(content_collection, oid) # {}

ItemOf(oid) == content_collection[CHOOSE i \in DocsWithId(content_collection, oid) : TRUE]

\* The rows the two listings join for one screen id.
HomeRows(s) == SelectSeq(aggregate(screens_collection, FALSE), LAMBDA r : r.id = s)

ManageRows(s) == SelectSeq(aggregate(screens_collection, TRUE), LAMBDA r : r.id = s)

InUseMessage(n) ==
    [text |-> "Cannot delete content: It is currently assigned to {screen_count} screen(s).",
     screen_count |-> n]

\* C1: delete_content with a well-formed id flashes the in-use message,
\* carrying the number of screens assigned that id, exactly when that number
\* is above zero when the request runs, and then the content collection, the
\* screens collection and the upload folder are left as they were.
C1_DeleteContentInUse ==
    [][ (request'.route = "/delete_content" /\ IsValidObjectId(request'.content_id)) =>
          LET n == Cardinality(AssignedTo(screens_collection,
                                          ObjectId(request'.content_id)))
          IN  /\ n > 0 => /\ flashed' = InUseMessage(n)
                          /\ UNCHANGED store
              /\ n = 0 => "screen_count" \notin DOMAIN flashed' ]_vars

\* A delete refused because both screens show the item, which is still there.
C1_Witness ==
    /\ request.route = "/delete_content"
    /\ flashed = InUseMessage(2)
    /\ IsValidObjectId(request.content_id)
    /\ ContentExists(ObjectId(request.content_id))
    /\ Cardinality(AssignedTo(screens_collection, ObjectId(request.content_id))) = 2

\* C2: right after assign_content(s, c) with c the id of an existing item,
\* the screen resolves to that item: the polling JSON carries content_id c
\* and the item's filename, and the home listing has one row for s with
\* assigned_content_id c and that filename.
C2_AssignThenResolve ==
    (/\ request.route = "/assign_content"
     /\ IsValidObjectId(request.content_id)
     /\ ContentExists(ObjectId(request.content_id)))
    => LET s == request.screen_id
           c == ObjectId(request.content_id)
           json == screen_json(s)
       IN  /\ flashed.text = "Content assigned to screen {screen_id} successfully!"
           /\ json.screen_id = s
           /\ json.content # None
           /\ json.content.content_id = request.content_id
           /\ json.content.filename = ItemOf(c).filename
           /\ "message" \notin DOMAIN json
           /\ HomeRows(s) = <<[id |-> s, assigned_content_id |-> c,
                               filename |-> ItemOf(c).filename]>>

\* An assignment of an existing item to a screen, the other screen showing
\* another item.
C2_Witness ==
    /\ request.route = "/assign_content"
    /\ IsValidObjectId(request.content_id)
    /\ ContentExists(ObjectId(request.content_id))
    /\ screen_json(request.screen_id).content # None
    /\ \E t \in ScreenIds \ {request.screen_id} :
          /\ screen_json(t).content # None
          /\ screen_json(t).content.content_id # request.content_id

\* C3: right after assign_content(s, "") the screen has one record, with no
\* assignment, and resolves to no content: the polling JSON has content null
\* and says that nothing is assigned, and the home row has no filename.
C3_UnassignThenResolve ==
    (request.route = "/assign_content" /\ request.content_id = EmptyString)
    => LET s == request.screen_id
           json == screen_json(s)
       IN  /\ flashed.text = "Content unassigned from screen {screen_id} successfully!"
           /\ Cardinality(DocsWithId(screens_collection, s)) = 1
           /\ \A i \in DocsWithId(screens_collection, s) :
                 screens_collection[i].assigned_content_id = None
           /\ json = [screen_id |-> s, content |-> None,
                      message |-> "No content assigned yet."]
           /\ HomeRows(s) = <<[id |-> s, assigned_content_id |-> None]>>

\* An unassignment while the other screen keeps its item.
C3_Witness ==
    /\ request.route = "/assign_content"
    /\ request.content_id = EmptyString
    /\ screen_json(request.screen_id).content = None
    /\ \E t \in ScreenIds \ {request.screen_id} : screen_json(t).content # None

RegisteredJson(s) ==
    [screen_id |-> s, content |-> None,
     message |-> "Screen registered. No content assigned yet."]

UnassignedJson(s) ==
    [screen_id |-> s, content |-> None, message |-> "No content assigned yet."]

DanglingJson(s) ==
    [screen_id |-> s, content |-> None,
     message |-> "Assigned content not found. Content may have been deleted."]

\* C4: a poll of an id with no screen record adds one record for it, with no
\* assignment, and answers "registered" with content null, the content
\* collection untouched; the poll of the same id that comes right after
\* answers "no content assigned" with content null and writes nothing.
C4_PollRegistersOnce ==
    [][ /\ (/\ request'.route = "/api/screen"
            /\ DocsWithId(screens_collection, request'.screen_id) = {})
           => LET s == request'.screen_id
              IN  /\ screens_collection' =
                        Append(screens_collection,
                               [_id |-> s, assigned_content_id |-> None])
                  /\ Cardinality(DocsWithId(screens_collection', s)) = 1
                  /\ response' = RegisteredJson(s)
                  /\ UNCHANGED <<content_collection, upload_folder>>
        /\ (/\ request.route = "/api/screen"
            /\ response = RegisteredJson(request.screen_id)
            /\ request' = request)
           => /\ response' = UnassignedJson(request.screen_id)
              /\ UNCHANGED store ]_vars

\* A first poll has registered its screen beside another screen's record.
C4_Witness ==
    /\ request.route = "/api/screen"
    /\ response = RegisteredJson(request.screen_id)
    /\ Cardinality(DocsWithId(screens_collection, request.screen_id)) = 1
    /\ Len(screens_collection) = 2

\* C5: in every state the polling JSON for a screen id names that id, and
\* its content is not null exactly when the id has a screen record whose
\* assigned_content_id is the _id of an existing content item; content_id is
\* then the text of that id, and filename and mimetype are the item's.  The
\* JSON a poll returned agrees with it.
C5_PollContentIffValid ==
    /\ \A q \in ScreenIds :
          LET json == screen_json(q)
              valid == {i \in DocsWithId(screens_collection, q) :
                           ContentExists(screens_collection[i].assigned_content_id)}
          IN  /\ json.screen_id = q
              /\ (json.content # None) <=> (valid # {})
              /\ \A i \in valid :
                    LET a == screens_collection[i].assigned_content_id
                    IN  /\ json.content # None
                        /\ ObjectId(json.content.content_id) = a
                        /\ json.content.content_id = HexString(a.oid)
                        /\ json.content.filename = ItemOf(a).filename
                        /\ json.content.mimetype = ItemOf(a).mimetype
    /\ request.route = "/api/screen"
       => /\ response.screen_id = request.screen_id
          /\ response.content = screen_json(request.screen_id).content

\* A poll has returned the item of its screen while the other screen shows
\* a different item.
C5_Witness ==
    /\ request.route = "/api/screen"
    /\ response.content # None
    /\ \E t \in ScreenIds \ {request.screen_id} :
          /\ screen_json(t).content # None
          /\ screen_json(t).content.content_id # response.content.content_id

\* The screen documents whose assignment names no content document.
Dangling ==
    {i \in DOMAIN screens_collection :
        /\ screens_collection[i].assigned_content_id # None
        /\ ~ContentExists(screens_collection[i].assigned_content_id)}

\* C6: a poll, the home listing and the management listing leave every
\* dangling screen document and the content collection as they are, and the
\* poll of a dangling screen answers the warning with content null and
\* writes nothing.
C6_DanglingReportedNotRepaired ==
    [][ /\ request'.route \in {"/api/screen", "/", "/manage_screens"}
           => /\ content_collection' = content_collection
              /\ \A i \in Dangling :
                    /\ i \in DOMAIN screens_collection'
                    /\ screens_collection'[i] = screens_collection[i]
        /\ (/\ request'.route = "/api/screen"
            /\ \E i \in Dangling : screens_collection[i]._id = request'.screen_id)
           => /\ response' = DanglingJson(request'.screen_id)
              /\ UNCHANGED store ]_vars

\* A poll has answered the warning and the stale id is still stored.
C6_Witness ==
    /\ request.route = "/api/screen"
    /\ response = DanglingJson(request.screen_id)
    /\ \E i \in Dangling : screens_collection[i]._id = request.screen_id

\* C7: delete_screen(s) leaves the content collection, the upload folder and
\* every other screen's document as they are; an item only s was assigned
\* keeps its document and has no screen left, and a delete_content of an
\* unreferenced existing item that comes right after removes it.
C7_DeleteScreenKeepsContent ==
    [][ /\ request'.route = "/delete_screen"
           => LET s == request'.screen_id
              IN  /\ content_collection' = content_collection
                  /\ upload_folder' = upload_folder
                  /\ SelectSeq(screens_collection', LAMBDA d : d._id # s)
                       = SelectSeq(screens_collection, LAMBDA d : d._id # s)
                  /\ \A k \in DOMAIN content_collection :
                        LET c == content_collection[k]._id
                        IN  (/\ AssignedTo(screens_collection, c) # {}
                             /\ \A i \in AssignedTo(screens_collection, c) :
                                   screens_collection[i]._id = s)
                            => /\ DocsWithId(content_collection', c) # {}
                               /\ AssignedTo(screens_collection', c) = {}
        /\ (/\ request.route = "/delete_screen"
            /\ request'.route = "/delete_content"
            /\ IsValidObjectId(request'.content_id)
            /\ ContentExists(ObjectId(request'.content_id))
            /\ AssignedTo(screens_collection, ObjectId(request'.content_id)) = {})
           => /\ flashed' = Flash("Content deleted successfully.")
              /\ DocsWithId(content_collection', ObjectId(request'.content_id)) = {} ]_vars

\* A screen has been deleted; an item no screen shows is still stored and the
\* other screen still shows another item.
C7_Witness ==
    /\ request.route = "/delete_screen"
    /\ DocsWithId(screens_collection, request.screen_id) = {}
    /\ \E k \in DOMAIN content_collection :
          AssignedTo(screens_collection, content_collection[k]._id) = {}
    /\ \E t \in ScreenIds : screen_json(t).content # None

\* C8: right after assign_content(s, c) with c well formed and the id of no
\* content item, the request has reported success, the one record of s
\* stores c, the polling JSON has content null with the warning, and the
\* home row has no filename.
C8_AssignMissingContentDangles ==
    (/\ request.route = "/assign_content"
     /\ IsValidObjectId(request.content_id)
     /\ ~ContentExists(ObjectId(request.content_id)))
    => LET s == request.screen_id
           c == ObjectId(request.content_id)
       IN  /\ flashed.text = "Content assigned to screen {screen_id} successfully!"
           /\ Cardinality(DocsWithId(screens_collection, s)) = 1
           /\ \A i \in DocsWithId(screens_collection, s) :
                 /\ screens_collection[i].assigned_content_id = c
                 /\ i \in Dangling
           /\ screen_json(s) = DanglingJson(s)
           /\ HomeRows(s) = <<[id |-> s, assigned_content_id |-> c]>>

\* An id that exists nowhere has been assigned while items are stored.
C8_Witness ==
    /\ request.route = "/assign_content"
    /\ IsValidObjectId(request.content_id)
    /\ ~ContentExists(ObjectId(request.content_id))
    /\ content_collection # <<>>
    /\ screen_json(request.screen_id) = DanglingJson(request.screen_id)

\* The home page lists every stored item once, with the text of its id,
\* and nothing else.
ListsExactlyContent(listing) ==
    /\ Len(listing) = Len(content_collection)
    /\ \A k \in DOMAIN content_collection :
          LET shown == content_collection[k]
                           @@ [id |-> HexString(content_collection[k]._id.oid)]
          IN  Cardinality({j \in DOMAIN listing : listing[j] = shown}) = 1

DescendingByUploadDate(listing) ==
    \A j, k \in DOMAIN listing :
        j < k => listing[j].upload_date >= listing[k].upload_date

\* Items with equal upload_date come in the order they were inserted, which
\* is the order their ids were generated in.
TiesInInsertionOrder(listing) ==
    \A j, k \in DOMAIN listing :
        (j < k /\ listing[j].upload_date = listing[k].upload_date)
        => listing[j]._id.oid < listing[k]._id.oid

\* C9 as stated: the content listing of the home page holds exactly the
\* stored items, by upload_date descending, equal dates in insertion order.
C9_ListingStableDescending ==
    request.route = "/"
    => /\ ListsExactlyContent(response.content)
       /\ DescendingByUploadDate(response.content)
       /\ TiesInInsertionOrder(response.content)

\* C9, amended: the content listing of the home page holds exactly the
\* stored items, by upload_date descending; among items with equal
\* upload_date any order can come back.
C9_ListingDescending ==
    request.route = "/"
    => /\ ListsExactlyContent(response.content)
       /\ DescendingByUploadDate(response.content)

\* The home page lists two items, the later upload first.
C9_Witness ==
    /\ request.route = "/"
    /\ Len(response.content) = 2
    /\ response.content[1].upload_date > response.content[2].upload_date
    /\ response.content[1]._id.oid > response.content[2]._id.oid

DeletedMessage(s) == [text |-> "Screen {screen_id} deleted.", screen_id |-> s]

\* C10: delete_screen of an id with no record answers as any delete_screen
\* does and writes nothing; after delete_screen(s) no record of s is left, so
\* a second delete_screen(s) is the first case; and the poll of s that comes
\* right after a delete_screen(s) registers s again with no assignment.
C10_DeleteScreenIdempotent ==
    [][ /\ request'.route = "/delete_screen"
           => /\ DocsWithId(screens_collection', request'.screen_id) = {}
              /\ flashed' = DeletedMessage(request'.screen_id)
              /\ response' = Redirect("manage_screens")
              /\ DocsWithId(screens_collection, request'.screen_id) = {}
                 => UNCHANGED store
        /\ (/\ request.route = "/delete_screen"
            /\ request'.route = "/api/screen"
            /\ request'.screen_id = request.screen_id)
           => /\ response' = RegisteredJson(request.screen_id)
              /\ screens_collection' =
                    Append(screens_collection,
                           [_id |-> request.screen_id,
                            assigned_content_id |-> None]) ]_vars

\* A screen has been deleted and has no record; the other screen has one.
C10_Witness ==
    /\ request.route = "/delete_screen"
    /\ flashed = DeletedMessage(request.screen_id)
    /\ DocsWithId(screens_collection, request.screen_id) = {}
    /\ Len(screens_collection) = 1

\* C11: a delete_content or an assign_content whose content id is a text
\* that is not empty and is no ObjectId flashes its invalid-id message and
\* leaves the collections and the upload folder as they were; an unknown
\* screen_id gets no record.
C11_MalformedIdNoMutation ==
    [][ (/\ request'.route \in {"/delete_content", "/assign_content"}
         /\ request'.content_id = MalformedString)
        => /\ UNCHANGED store
           /\ flashed' = Flash(IF request'.route = "/delete_content"
                               THEN "Invalid content ID."
                               ELSE "Invalid content ID selected: {e}") ]_vars

\* An assign_content with a malformed id for a screen that has no record,
\* and still has none, while an item is stored.
C11_Witness ==
    /\ request.route = "/assign_content"
    /\ request.content_id = MalformedString
    /\ flashed = Flash("Invalid content ID selected: {e}")
    /\ DocsWithId(screens_collection, request.screen_id) = {}
    /\ content_collection # <<>>

\* The allow-set as the upload contract states it.
AllowSet ==
    { <<"p", "n", "g">>, <<"j", "p", "g">>, <<"j", "p", "e", "g">>,
      <<"g", "i", "f">>, <<"m", "o", "v">>, <<"m", "p", "4">>,
      <<"w", "e", "b", "m">>, <<"o", "g", "g">> }

\* The name ends in a dot followed by a member of the allow-set, letters
\* compared without regard to case.
HasAllowedExtension(f) ==
    \E e \in AllowSet :
        /\ Len(f) > Len(e)
        /\ f[Len(f) - Len(e)] = "."
        /\ \A i \in DOMAIN e : LowerChar(f[Len(f) - Len(e) + i]) = e[i]

C14_NoDanglingWhenAssignsExist == Dangling = {}

\* A delete_content has been refused because a screen shows the item, and a
\* second item that no screen shows is stored beside it.
C14_Witness ==
    /\ request.route = "/delete_content"
    /\ flashed = InUseMessage(1)
    /\ Len(content_collection) = 2
    /\ Dangling = {}

\* C17: for every screen document the home listing and the management
\* listing join one row each, the two rows carry a filename together or not
\* at all, they carry one exactly when the polling JSON has a content
\* object, and the three filenames are then the same.
C17_ReadPathsAgree ==
    \A i \in DOMAIN screens_collection :
        LET s == screens_collection[i]._id
            home == HomeRows(s)
            manage == ManageRows(s)
            json == screen_json(s)
        IN  /\ Len(home) = 1
            /\ Len(manage) = 1
            /\ ("filename" \in DOMAIN home[1]) <=> ("filename" \in DOMAIN manage[1])
            /\ ("filename" \in DOMAIN home[1]) <=> (json.content # None)
            /\ json.content # None
               => /\ home[1].filename = json.content.filename
                  /\ manage[1].filename = json.content.filename
            /\ i \in Dangling \/ screens_collection[i].assigned_content_id = None
               => /\ "filename" \notin DOMAIN home[1]
                  /\ "filename" \notin DOMAIN manage[1]
                  /\ json.content = None

\* One screen shows a stored item and the other names an item that is gone,
\* while an item is stored.
C17_Witness ==
    /\ Dangling # {}
    /\ content_collection # <<>>
    /\ \E t \in ScreenIds : screen_json(t).content # None

\* C20: every content document has its file in the upload folder.
C20_EveryRecordHasBlob ==
    \A k \in DOMAIN content_collection :
        content_collection[k].filename \in upload_folder

\* The value assign_content stores for the content id text it is posted.
Requested(content_id) ==
    IF content_id = EmptyString THEN None ELSE ObjectIdOf(content_id.val)

UniqueScreenIds ==
    \A s \in ScreenIds : Cardinality(DocsWithId(screens_collection, s)) <= 1

\* The upsert of assign_content for screen s and value v: the record of s
\* takes v where it stands and nothing else changes, or, s having no record,
\* one record of s with v is added.
UpsertEffect(s, v) ==
    IF DocsWithId(screens_collection, s) # {}
    THEN /\ Len(screens_collection') = Len(screens_collection)
         /\ \A i \in DOMAIN screens_collection :
               screens_collection'[i] =
                  IF screens_collection[i]._id = s
                  THEN [_id |-> s, assigned_content_id |-> v]
                  ELSE screens_collection[i]
    ELSE screens_collection' =
            Append(screens_collection, [_id |-> s, assigned_content_id |-> v])

\* C12: with the store operations of assign, unassign, delete-screen and
\* poll requests interleaved in any order, no screen id ever has more than
\* one screen record, and the update_one of an assign_content changes the
\* one record of its screen id in place when there is one and adds exactly
\* one record when there is none.
C12_ScreenIdUnique ==
    /\ []UniqueScreenIds
    /\ [][\A t \in Threads :
             threads[t].pc = "update" /\ threads'[t].pc = "verify"
             => UpsertEffect(threads[t].screen_id, Requested(threads[t].content_id))]_vars

\* A poll and an assignment raced for one new screen id: the poll found no
\* record, the assignment created it, the poll's insert was turned down, and
\* the id has one record.
C12_Witness ==
    \E t \in Threads, u \in Threads, s \in ScreenIds :
        /\ threads[t].pc = "done" /\ threads[t].route = "/api/screen"
        /\ threads[t].screen_id = s
        /\ threads[t].outcome = [error |-> "DuplicateKeyError"]
        /\ threads[u].pc = "done" /\ threads[u].route = "/assign_content"
        /\ threads[u].screen_id = s
        /\ Cardinality(DocsWithId(screens_collection, s)) = 1

\* C15: with the store operations of concurrent requests interleaved,
\* whenever the delete_one of a delete_content removes the document of a
\* content item, no screen document names that item at that step, so a
\* screen never dangles on an item it was assigned while the item was stored.
C15_NoReferenceAtDeletion ==
    [][\A t \in Threads :
          /\ threads[t].pc = "delete_content"
          /\ threads'[t].pc = "done"
          /\ ContentExists(Requested(threads[t].content_id))
          => AssignedTo(screens_collection, Requested(threads[t].content_id)) = {}]_vars

AssignFailureTexts ==
    {"Content assignment to screen {screen_id} failed verification!",
     "Screen {screen_id} not found after assignment attempt!"}

AssignSuccessText(content_id) ==
    IF content_id = EmptyString
    THEN "Content unassigned from screen {screen_id} successfully!"
    ELSE "Content assigned to screen {screen_id} successfully!"

\* C16: when an assign_content takes its verifying read and flashes, it
\* flashes a failed verification or a screen not found only if an
\* assign_content or delete_screen of another request wrote the document of
\* its screen id after its own update_one; when none did, it flashes success
\* and the stored assigned_content_id of the screen is the value it asked for.
C16_VerificationFailsOnlyOnInterference ==
    [][\A t \in Threads :
          threads[t].pc = "verify" /\ threads'[t].pc = "done"
          => LET s == threads[t].screen_id
                 text == threads'[t].outcome.text
             IN  /\ text \in AssignFailureTexts => threads[t].written
                 /\ ~threads[t].written
                    => /\ text = AssignSuccessText(threads[t].content_id)
                       /\ \E i \in DocsWithId(screens_collection', s) :
                             screens_collection'[i].assigned_content_id
                                = Requested(threads[t].content_id)]_vars

\* One assign_content failed its verification after another request wrote
\* its screen, and one went through undisturbed and succeeded.
C16_Witness ==
    \E t \in Threads, u \in Threads :
        /\ threads[t].pc = "done" /\ threads[t].route = "/assign_content"
        /\ threads[t].outcome.text \in AssignFailureTexts
        /\ threads[t].written
        /\ threads[u].pc = "done" /\ threads[u].route = "/assign_content"
        /\ ~threads[u].written
        /\ threads[u].outcome.text = AssignSuccessText(threads[u].content_id)

\* C18: every store operation of a poll leaves the content collection and
\* the upload folder as they are and either leaves the screen collection as
\* it is or adds one document, with no content assigned, for the polled id
\* that had no document; it never rewrites or removes a screen document,
\* also when an assign_content of the same id runs between its operations.
C18_PollOnlyRegisters ==
    [][\A t \in Threads :
          threads'[t] # threads[t] /\ threads'[t].route = "/api/screen"
          => LET s == threads'[t].screen_id
             IN  /\ content_collection' = content_collection
                 /\ upload_folder' = upload_folder
                 /\ \/ screens_collection' = screens_collection
                    \/ /\ DocsWithId(screens_collection, s) = {}
                       /\ screens_collection' =
                            Append(screens_collection,
                                   [_id |-> s, assigned_content_id |-> None])]_vars

\* A poll found no document of its id, an assign_content of that id stored a
\* content id before the poll's insert, and the poll has ended with the
\* assignment still in place.
C18_Witness ==
    \E t \in Threads, u \in Threads, s \in ScreenIds :
        /\ threads[u].pc = "verify" /\ threads[u].screen_id = s
        /\ threads[u].content_id # EmptyString /\ ~threads[u].written
        /\ threads[t].pc = "done" /\ threads[t].route = "/api/screen"
        /\ threads[t].screen_id = s
        /\ "message" \notin DOMAIN threads[t].outcome
        /\ "content" \notin DOMAIN threads[t].outcome
        /\ \E i \in DocsWithId(screens_collection, s) :
              screens_collection[i].assigned_content_id # None

\* The bodies a poll answers with when nothing goes wrong.
NormalPollBodies(s) ==
    {RegisteredJson(s), UnassignedJson(s), DanglingJson(s)}
    \cup {[screen_id |-> s,
           content |-> [content_id |-> HexString(n),
                        filename |-> secure_filename(InterleavedFile.filename),
                        url |-> static_url(secure_filename(InterleavedFile.filename)),
                        mimetype |-> InterleavedFile.mimetype]] : n \in 1..issued}

\* C19: with polls and assignments of one new screen id running at once,
\* every poll that has ended answered with a normal body (registered, no
\* content assigned, or the assigned content) and not with an error, and
\* the id has at most one screen document.
C19_ConcurrentPollsComplete ==
    \A t \in Threads :
        threads[t].pc = "done" /\ threads[t].route = "/api/screen"
        => /\ threads[t].outcome \in NormalPollBodies(threads[t].screen_id)
           /\ Cardinality(DocsWithId(screens_collection, threads[t].screen_id)) <= 1

====
